---- MODULE Spec2Model ----
(***************************************************************************)
(* icebook: the Storybook application shell (app.rs), its preferences      *)
(* (preferences.rs), URL-hash routing (routing.rs), brightness (theme.rs)  *)
(* and the story registry contract (story.rs, with the example registry    *)
(* of icebook-example/src/main.rs as the registry implementation).         *)
(*                                                                         *)
(* Strings the code inspects (story ids, categories, the URL fragment) are *)
(* sequences of ASCII codes, so that to_lowercase, trim_start_matches,     *)
(* format! and the BTreeMap key order are computed, not assumed.  Strings  *)
(* the code only carries around (titles, search text, the stored theme     *)
(* value) are TLA+ strings.                                                *)
(***************************************************************************)
EXTENDS Integers, Sequences, FiniteSets, TLC

VARIABLES
    env,             \* the platform: build target and which browser APIs answer
    story_list,      \* S::stories(), the registry's static metadata list
    route,           \* the URL fragment (location.hash)
    store,           \* localStorage[THEME_KEY]
    pc,              \* "boot" before Storybook::new() has run, "running" after
    stories,         \* Storybook.stories: the registry instance (per-story state)
    selected,        \* Storybook.selected
    brightness,      \* Storybook.brightness
    preferences,     \* Storybook.preferences
    sidebar_config,  \* Storybook.sidebar_config
    search_query,    \* Storybook.search_query
    lastMsg,         \* the message update() handled last: its kind, a SelectStory's id
    prevBrightness,  \* brightness before the last update()
    screen,          \* the element tree view() returned, NotRendered once update() ran
    call,            \* the last direct call of a registry or sidebar function, with its result
    cells,           \* the lazily initialised static themes, one cell per brightness
    callers          \* the threads calling ThemeProvider::get_theme

\* what the shell's own steps never touch
otherVars == <<call, cells, callers>>

vars == <<env, story_list, route, store, pc, stories, selected, brightness,
          preferences, sidebar_config, search_query, lastMsg, prevBrightness,
          screen, call, cells, callers>>

(***************************************************************************)
(* Bounds                                                                  *)
(***************************************************************************)
\* a story's click counter stops accepting clicks here
MaxClicks == 1
\* the threads that call ThemeProvider::get_theme concurrently
NumThreads == 2

(***************************************************************************)
(* Option values                                                           *)
(***************************************************************************)
None == [some |-> FALSE]
Some(v) == [some |-> TRUE, val |-> v]

(***************************************************************************)
(* Strings as sequences of ASCII codes                                     *)
(***************************************************************************)
\* '#'
HashChar == 35
\* '/'
SlashChar == 47

\* ""
EmptyStr == <<>>
\* "welcome"
WelcomeStr == <<119, 101, 108, 99, 111, 109, 101>>
\* "btn"
BtnStr == <<98, 116, 110>>
\* "Btn"
BtnCapStr == <<66, 116, 110>>
\* "col"
ColStr == <<99, 111, 108>>
\* "inp"
InpStr == <<105, 110, 112>>
\* "zz"
ZzStr == <<122, 122>>
\* "Co", "Fo", "ac": categories (upper case sorts before lower case)
CoStr == <<67, 111>>
FoStr == <<70, 111>>
AcStr == <<97, 99>>

\* str::to_lowercase on ASCII text
ToLowercase(s) == [i \in 1..Len(s) |-> IF s[i] \in 65..90 THEN s[i] + 32 ELSE s[i]]

\* str::trim_start_matches(c): drops every leading c
RECURSIVE TrimStartMatches(_, _)
TrimStartMatches(s, c) ==
    IF s # <<>> /\ Head(s) = c THEN TrimStartMatches(Tail(s), c) ELSE s

\* String's Ord: byte-wise lexicographic, a proper prefix first
RECURSIVE StrLess(_, _)
StrLess(a, b) ==
    IF b = <<>> THEN FALSE
    ELSE IF a = <<>> THEN TRUE
    ELSE IF Head(a) # Head(b) THEN Head(a) < Head(b)
    ELSE StrLess(Tail(a), Tail(b))

(***************************************************************************)
(* theme.rs                                                                *)
(***************************************************************************)
Brightness == {"Dark", "Light"}

\* toggle with its Light arm returning Light
toggle_LightStaysLight(b) == "Light"

toggle(b) == IF b = "Dark" THEN "Light" ELSE "Dark"

(***************************************************************************)
(* The example's theme provider: two once_cell::sync::Lazy statics         *)
(***************************************************************************)
Threads == 1..NumThreads

\* a Lazy static before its first access: nothing constructed
EmptyCell == [state |-> "incomplete", instance |-> 0, constructed |-> 0]

\* DARK_THEME and LIGHT_THEME when the process starts
InitialCells == [b \in Brightness |-> EmptyCell]

\* a thread that is not inside get_theme and has been handed no theme yet
IdleCaller ==
    [pc |-> "idle", want |-> "Dark", seen |-> [b \in Brightness |-> 0],
     sidebar_seen |-> [b \in Brightness |-> "none"]]

\* The cells after the initialiser of cs[b] (SimpleTheme::dark or ::light) ran:
\* each run makes a new instance, numbered by the runs so far.
Construct(cs, b) ==
    [cs EXCEPT ![b] = [state |-> "complete",
                       instance |-> @.constructed + 1,
                       constructed |-> @.constructed + 1]]

\* &*DARK_THEME / &*LIGHT_THEME on the only thread there is: the cells after
\* the dereference
Force(cs, b) == IF cs[b].state = "complete" THEN cs ELSE Construct(cs, b)

\* the static get_theme dereferences for a brightness
ThemeStatic(b) == IF b = "Dark" THEN "DARK_THEME" ELSE "LIGHT_THEME"

\* SimpleThemeProvider::get_theme on the only thread there is: the reference
get_theme(cs, b) == [static |-> ThemeStatic(b), instance |-> Force(cs, b)[b].instance]

\* default_sidebar_theme: a reference to a const-initialised static
default_sidebar_theme(b) == IF b = "Dark" THEN "DARK_SIDEBAR" ELSE "LIGHT_SIDEBAR"

\* ThemeProvider::get_sidebar_theme, the default method
get_sidebar_theme(b) == IF b = "Dark" THEN "DARK_SIDEBAR" ELSE "LIGHT_SIDEBAR"

(***************************************************************************)
(* The platform                                                            *)
(***************************************************************************)
\* cfg(target_arch = "wasm32") and web_sys::window() answering
HasWindow(e) == e.target = "wasm32" /\ e.window

NativeEnv ==
    [target |-> "native", window |-> FALSE, history |-> FALSE,
     storage |-> "unavailable", media |-> "none"]

NoWindowEnv ==
    [target |-> "wasm32", window |-> FALSE, history |-> FALSE,
     storage |-> "unavailable", media |-> "none"]

BrowserEnvs ==
    [target : {"wasm32"}, window : {TRUE}, history : BOOLEAN,
     storage : {"ok", "readonly", "unavailable"}, media : {"dark", "light", "none"}]

Envs == {NativeEnv, NoWindowEnv} \cup BrowserEnvs

(***************************************************************************)
(* preferences.rs                                                          *)
(***************************************************************************)
load_brightness(e, st) ==
    IF ~HasWindow(e) THEN None
    ELSE IF e.storage = "unavailable" THEN None
    ELSE IF ~st.some THEN None
    ELSE IF st.val = "dark" THEN Some("Dark")
    ELSE IF st.val = "light" THEN Some("Light")
    ELSE None

get_system_brightness(e) ==
    IF ~HasWindow(e) THEN "Dark"
    ELSE IF e.media = "dark" THEN "Dark"
    ELSE IF e.media = "light" THEN "Light"
    ELSE "Dark"

\* get_initial_brightness asking the platform before the saved preference
get_initial_brightness_SystemFirst(e, st) ==
    LET saved == load_brightness(e, st)
    IN  IF HasWindow(e) /\ e.media \in {"dark", "light"}
        THEN get_system_brightness(e)
        ELSE IF saved.some THEN saved.val ELSE "Dark"

get_initial_brightness(e, st) ==
    LET saved == load_brightness(e, st)
    IN  IF saved.some THEN saved.val ELSE get_system_brightness(e)

\* save_brightness with the two literals exchanged
save_brightness_Swapped(e, st, b) ==
    IF ~HasWindow(e) THEN st
    ELSE IF e.storage # "ok" THEN st
    ELSE Some(IF b = "Dark" THEN "light" ELSE "dark")

\* the store after save_brightness(b)
save_brightness(e, st, b) ==
    IF ~HasWindow(e) THEN st
    ELSE IF e.storage # "ok" THEN st
    ELSE Some(IF b = "Dark" THEN "dark" ELSE "light")

Preferences_load(e, st) == [brightness |-> get_initial_brightness(e, st)]

\* set_brightness that forgets the value
Preferences_set_brightness_Noop(p, b) == p

Preferences_set_brightness(p, b) == [p EXCEPT !.brightness = b]

Preferences_save(e, st, p) == save_brightness(e, st, p.brightness)

(***************************************************************************)
(* routing.rs                                                              *)
(***************************************************************************)
get_initial_route(e, hash) ==
    IF ~HasWindow(e) THEN None
    ELSE LET r == TrimStartMatches(TrimStartMatches(hash, HashChar), SlashChar)
         IN  IF r = <<>> THEN None ELSE Some(ToLowercase(r))

\* set_url_hash formatting "#{}" instead of "#/{}"
UrlHashFor_NoSlash(story_id) ==
    IF story_id = <<>> \/ story_id = WelcomeStr
    THEN <<>>
    ELSE <<HashChar>> \o story_id

\* the url set_url_hash hands to history.replaceState
UrlHashFor(story_id) ==
    IF story_id = <<>> \/ story_id = WelcomeStr
    THEN <<>>
    ELSE <<HashChar, SlashChar>> \o story_id

\* The fragments the page can have after set_url_hash(story_id).  A non-empty
\* url replaces the fragment.  What replaceState does with an empty url is the
\* browser's decision, not this program's: the fragment is cleared or kept.
set_url_hash(e, hash, story_id) ==
    IF ~HasWindow(e) THEN {hash}
    ELSE IF ~e.history THEN {hash}
    ELSE IF UrlHashFor(story_id) = <<>> THEN {<<>>, hash}
    ELSE {UrlHashFor(story_id)}

(***************************************************************************)
(* story.rs and the registry of icebook-example                            *)
(***************************************************************************)
StoryMeta(id, title, category) == [id |-> id, title |-> title, category |-> category]

\* StoryRegistry::title(), the default
title == "icebook"

\* The registries S the shell is instantiated with: S::stories()
Registries ==
    { <<>>,
      <<StoryMeta(BtnStr, "Buttons", CoStr), StoryMeta(ColStr, "Colors", FoStr)>>,
      <<StoryMeta(ColStr, "Colors", FoStr), StoryMeta(BtnStr, "Buttons", CoStr),
        StoryMeta(InpStr, "Inputs", FoStr)>>,
      <<StoryMeta(ColStr, "Colors", AcStr), StoryMeta(BtnCapStr, "Buttons", FoStr)>>,
      <<StoryMeta(BtnStr, "Buttons", CoStr), StoryMeta(WelcomeStr, "Welcome", AcStr)>>,
      <<StoryMeta(WelcomeStr, "Welcome", FoStr), StoryMeta(InpStr, "Inputs", FoStr)>> }

\* S::default(): every story in its default state (click_count = 0)
Registry_default(sl) == [i \in 1..Len(sl) |-> 0]

\* Story::update of a story: ButtonMessage::Clicked
Story_update(click_count) == click_count + 1

\* StoryRegistry::update handing the message to the story it is tagged for,
\* whatever story_id says
Registry_update_ByTagOnly(st, sl, story_id, msg) ==
    [st EXCEPT ![msg.tag] = Story_update(@)]

\* StoryRegistry::update: the arm (id of story i, message tagged for story i)
Registry_update(st, sl, story_id, msg) ==
    IF \E i \in 1..Len(sl) : sl[i].id = story_id /\ msg.tag = i
    THEN [st EXCEPT ![msg.tag] = Story_update(@)]
    ELSE st

\* Story::view of story i: its heading, its state, the theme's colours, and
\* the messages its widgets emit, tagged for story i by the registry's map
Story_view(st, i, theme) ==
    [kind |-> "story", tag |-> i, click_count |-> st[i], theme |-> theme,
     emits |-> {[tag |-> i]}]

\* text("Story not found"): a label, no widget that emits a message
NotFoundView == [kind |-> "text", text |-> "Story not found", emits |-> {}]

\* StoryRegistry::view falling into its first arm for an unmatched id
Registry_view_FirstOnMiss(st, sl, story_id, theme) ==
    IF \E i \in 1..Len(sl) : sl[i].id = story_id
    THEN Story_view(st, CHOOSE i \in 1..Len(sl) : sl[i].id = story_id, theme)
    ELSE IF sl # <<>> THEN Story_view(st, 1, theme) ELSE NotFoundView

\* StoryRegistry::view: the arm of the story whose id is story_id, else `_`
Registry_view(st, sl, story_id, theme) ==
    IF \E i \in 1..Len(sl) : sl[i].id = story_id
    THEN Story_view(st, CHOOSE i \in 1..Len(sl) : sl[i].id = story_id, theme)
    ELSE NotFoundView

(***************************************************************************)
(* app.rs: build_sidebar_config                                            *)
(***************************************************************************)
NavItem(id, label) == [id |-> id, label |-> label]

\* categories.entry(category).or_default().push(NavItem {..})
EntryPush(map, story) ==
    LET item == NavItem(story.id, story.title)
    IN  IF story.category \in DOMAIN map
        THEN [map EXCEPT ![story.category] = Append(@, item)]
        ELSE [c \in DOMAIN map \cup {story.category} |->
                 IF c = story.category THEN <<item>> ELSE map[c]]

\* for story in stories { ... }
RECURSIVE GroupByCategory(_, _)
GroupByCategory(sl, map) ==
    IF sl = <<>> THEN map ELSE GroupByCategory(Tail(sl), EntryPush(map, Head(sl)))

\* a map iterated from its largest key
FirstKey_Largest(keys) == CHOOSE k \in keys : \A o \in keys : o = k \/ StrLess(o, k)

\* the first key of a BTreeMap: the smallest in String order
FirstKey(keys) == CHOOSE k \in keys : \A o \in keys : o = k \/ StrLess(k, o)

\* categories.into_iter().map(|(title, items)| SidebarSection {..}).collect()
RECURSIVE IntoSections(_)
IntoSections(map) ==
    IF DOMAIN map = {} THEN <<>>
    ELSE LET k == FirstKey(DOMAIN map)
         IN  <<[title |-> k, items |-> map[k]]>>
             \o IntoSections([c \in DOMAIN map \ {k} |-> map[c]])

build_sidebar_config(t, sl) ==
    [title |-> t, sections |-> IntoSections(GroupByCategory(sl, <<>>))]

(***************************************************************************)
(* sidebar.rs: the built-in sidebar                                        *)
(***************************************************************************)
\* SidebarMessage
SidebarMessage(kind, id) == [kind |-> kind, id |-> id]

\* Space::new().height(h)
Space(h) == [kind |-> "space", height |-> h]

\* section_header(label, color, theme)
section_header(label, theme) ==
    [kind |-> "header", label |-> label, color |-> <<theme, "text_secondary">>]

\* nav_item whose click carries the id in lower case
nav_item_LowercasesId(id, label, sel, theme) ==
    LET is_selected == id = sel
    IN  [kind |-> "item", label |-> label,
         text_color |-> IF is_selected THEN <<theme, "text_primary">>
                        ELSE <<theme, "text_secondary">>,
         background |-> IF is_selected THEN <<theme, "selected_background">>
                        ELSE <<"Color", "TRANSPARENT">>,
         on_press |-> SidebarMessage("SelectStory", ToLowercase(id))]

\* nav_item(id, label, selected, theme)
nav_item(id, label, sel, theme) ==
    LET is_selected == id = sel
    IN  [kind |-> "item", label |-> label,
         text_color |-> IF is_selected THEN <<theme, "text_primary">>
                        ELSE <<theme, "text_secondary">>,
         background |-> IF is_selected THEN <<theme, "selected_background">>
                        ELSE <<"Color", "TRANSPARENT">>,
         on_press |-> SidebarMessage("SelectStory", id)]

\* a separator pushed before the first section too
SpaceBefore_Every(i) == <<Space(16)>>

\* if i > 0 { push(Space) }, for the section at position i counted from 1
SpaceBefore(i) == IF i - 1 > 0 THEN <<Space(16)>> ELSE <<>>

\* for item in &section.items { push(nav_item(..)) }
NavItems(items, sel, theme) ==
    [k \in 1..Len(items) |-> nav_item(items[k].id, items[k].label, sel, theme)]

\* for (i, section) in config.sections.iter().enumerate() { .. }, from section i
RECURSIVE Components(_, _, _, _)
Components(sections, i, sel, theme) ==
    IF i > Len(sections) THEN <<>>
    ELSE SpaceBefore(i)
         \o <<section_header(sections[i].title, theme)>>
         \o NavItems(sections[i].items, sel, theme)
         \o Components(sections, i + 1, sel, theme)

\* sidebar(config, selected, theme)
sidebar(config, sel, theme) ==
    [header |-> config.title,
     theme_toggle |-> [label |-> "Toggle Theme",
                       on_press |-> SidebarMessage("ToggleBrightness", <<>>)],
     components |-> Components(config.sections, 1, sel, theme),
     background |-> <<theme, "sidebar_background">>]

(***************************************************************************)
(* app.rs: Storybook                                                       *)
(***************************************************************************)
\* new() taking the route's id without checking that it names a story
InitialSelected_Unfiltered(e, hash, sl) ==
    LET initial == get_initial_route(e, hash)
    IN  IF initial.some THEN initial.val
        ELSE IF sl # <<>> THEN sl[1].id
        ELSE <<>>

\* new() falling back to the last story instead of the first
InitialSelected_LastFallback(e, hash, sl) ==
    LET initial == get_initial_route(e, hash)
    IN  IF initial.some /\ \E i \in 1..Len(sl) : sl[i].id = initial.val
        THEN initial.val
        ELSE IF sl # <<>> THEN sl[Len(sl)].id
        ELSE <<>>

\* the initial selection of Storybook::new()
InitialSelected(e, hash, sl) ==
    LET initial == get_initial_route(e, hash)
    IN  IF initial.some /\ \E i \in 1..Len(sl) : sl[i].id = initial.val
        THEN initial.val
        ELSE IF sl # <<>> THEN sl[1].id
        ELSE <<>>

\* "#/" followed by the id
Frag(id) == <<HashChar, SlashChar>> \o id

\* the fragments a page may be opened with
RouteInputs ==
    { <<>>, <<HashChar>>, <<HashChar, SlashChar>>,
      Frag(ColStr), Frag(<<67, 79, 76>>), <<HashChar>> \o ColStr,
      <<HashChar, HashChar, SlashChar, SlashChar>> \o ColStr,
      Frag(BtnStr), Frag(BtnCapStr), Frag(ZzStr), Frag(WelcomeStr) }

\* what localStorage may hold under THEME_KEY when the page opens
StoreInputs == {None, Some("dark"), Some("light"), Some("Dark")}

\* the ids a SelectStory message may carry
SelectIds == {EmptyStr, BtnCapStr, ColStr, WelcomeStr, ZzStr}

\* the texts a SearchChanged message may carry
SearchTexts == {"", "btn"}

\* the record of the message handled last, with the id a SelectStory and the
\* text a SearchChanged carries; NoMsg when update() has not run
Msg(kind, id) == [kind |-> kind, id |-> id, text |-> ""]
NoMsg == Msg("None", <<>>)

\* no element tree: view() has not run since the last update()
NotRendered == [kind |-> "none"]

\* no direct call of a registry or sidebar function yet
NoCall == [fn |-> "none"]

Init ==
    /\ env \in Envs
    /\ story_list \in Registries
    /\ route \in (IF HasWindow(env) THEN RouteInputs ELSE {<<>>})
    /\ store \in (IF HasWindow(env) /\ env.storage # "unavailable" THEN StoreInputs ELSE {None})
    /\ pc = "boot"
    /\ stories = <<>>
    /\ selected = <<>>
    /\ brightness = "Dark"
    /\ preferences = [brightness |-> "Dark"]
    /\ sidebar_config = [title |-> "", sections |-> <<>>]
    /\ search_query = ""
    /\ lastMsg = NoMsg
    /\ prevBrightness = "Dark"
    /\ screen = NotRendered
    /\ call = NoCall
    /\ cells = InitialCells
    /\ callers = [t \in Threads |-> IdleCaller]

\* Storybook::new()
New ==
    /\ pc = "boot"
    /\ pc' = "running"
    /\ stories' = Registry_default(story_list)
    /\ preferences' = Preferences_load(env, store)
    /\ brightness' = preferences'.brightness
    /\ sidebar_config' = build_sidebar_config(title, story_list)
    /\ selected' = InitialSelected(env, route, story_list)
    /\ route' \in set_url_hash(env, route, selected')
    /\ search_query' = ""
    /\ lastMsg' = NoMsg
    /\ prevBrightness' = brightness'
    /\ screen' = NotRendered
    /\ UNCHANGED otherVars
    /\ UNCHANGED <<env, story_list, store>>

\* Story forwarded with the first story's id instead of `selected`
Story_ToFirstStory(msg) ==
    /\ pc = "running"
    /\ stories[msg.tag] < MaxClicks
    /\ stories' = Registry_update(stories, story_list, story_list[1].id, msg)
    /\ lastMsg' = Msg("Story", <<>>)
    /\ prevBrightness' = brightness
    /\ screen' = NotRendered
    /\ UNCHANGED otherVars
    /\ UNCHANGED <<env, story_list, route, store, pc, selected, brightness,
                   preferences, sidebar_config, search_query>>

\* update(Message::Story(msg))
Story(msg) ==
    /\ pc = "running"
    /\ stories[msg.tag] < MaxClicks
    /\ stories' = Registry_update(stories, story_list, selected, msg)
    /\ lastMsg' = Msg("Story", <<>>)
    /\ prevBrightness' = brightness
    /\ screen' = NotRendered
    /\ UNCHANGED otherVars
    /\ UNCHANGED <<env, story_list, route, store, pc, selected, brightness,
                   preferences, sidebar_config, search_query>>

\* ToggleBrightness also clearing the search query
ToggleBrightness_ClearsSearch ==
    /\ pc = "running"
    /\ brightness' = toggle(brightness)
    /\ preferences' = Preferences_set_brightness(preferences, brightness')
    /\ store' = Preferences_save(env, store, preferences')
    /\ search_query' = ""
    /\ lastMsg' = Msg("ToggleBrightness", <<>>)
    /\ prevBrightness' = brightness
    /\ screen' = NotRendered
    /\ UNCHANGED otherVars
    /\ UNCHANGED <<env, story_list, route, pc, stories, selected, sidebar_config>>

\* ToggleBrightness giving up when the preference cannot be written
ToggleBrightness_SkipsWhenUnsaved ==
    /\ pc = "running"
    /\ brightness' = IF Preferences_save(env, store, [brightness |-> toggle(brightness)])
                        = Some(IF toggle(brightness) = "Dark" THEN "dark" ELSE "light")
                     THEN toggle(brightness) ELSE brightness
    /\ preferences' = Preferences_set_brightness(preferences, brightness')
    /\ store' = Preferences_save(env, store, preferences')
    /\ lastMsg' = Msg("ToggleBrightness", <<>>)
    /\ prevBrightness' = brightness
    /\ screen' = NotRendered
    /\ UNCHANGED otherVars
    /\ UNCHANGED <<env, story_list, route, pc, stories, selected,
                   sidebar_config, search_query>>

\* update(Message::ToggleBrightness)
ToggleBrightness ==
    /\ pc = "running"
    /\ brightness' = toggle(brightness)
    /\ preferences' = Preferences_set_brightness(preferences, brightness')
    /\ store' = Preferences_save(env, store, preferences')
    /\ lastMsg' = Msg("ToggleBrightness", <<>>)
    /\ prevBrightness' = brightness
    /\ screen' = NotRendered
    /\ UNCHANGED otherVars
    /\ UNCHANGED <<env, story_list, route, pc, stories, selected,
                   sidebar_config, search_query>>

\* SelectStory without the routing::set_url_hash call
SelectStory_NoRoute(id) ==
    /\ pc = "running"
    /\ selected' = id
    /\ lastMsg' = Msg("SelectStory", id)
    /\ prevBrightness' = brightness
    /\ screen' = NotRendered
    /\ UNCHANGED otherVars
    /\ UNCHANGED <<env, story_list, route, store, pc, stories, brightness,
                   preferences, sidebar_config, search_query>>

\* update(Message::SelectStory(id))
SelectStory(id) ==
    /\ pc = "running"
    /\ selected' = id
    /\ route' \in set_url_hash(env, route, id)
    /\ lastMsg' = Msg("SelectStory", id)
    /\ prevBrightness' = brightness
    /\ screen' = NotRendered
    /\ UNCHANGED otherVars
    /\ UNCHANGED <<env, story_list, store, pc, stories, brightness,
                   preferences, sidebar_config, search_query>>

\* SearchChanged narrowing the stored sidebar config to the matching stories
SearchChanged_FiltersSidebar(query) ==
    /\ pc = "running"
    /\ search_query' = query
    /\ sidebar_config' = IF query = "" THEN sidebar_config
                         ELSE [sidebar_config EXCEPT !.sections = <<>>]
    /\ lastMsg' = [Msg("SearchChanged", <<>>) EXCEPT !.text = query]
    /\ prevBrightness' = brightness
    /\ screen' = NotRendered
    /\ UNCHANGED otherVars
    /\ UNCHANGED <<env, story_list, route, store, pc, stories, selected,
                   brightness, preferences>>

\* SearchChanged dropping the selection when the text is not empty
SearchChanged_ClearsSelected(query) ==
    /\ pc = "running"
    /\ search_query' = query
    /\ selected' = IF query = "" THEN selected ELSE <<>>
    /\ lastMsg' = [Msg("SearchChanged", <<>>) EXCEPT !.text = query]
    /\ prevBrightness' = brightness
    /\ screen' = NotRendered
    /\ UNCHANGED otherVars
    /\ UNCHANGED <<env, story_list, route, store, pc, stories,
                   brightness, preferences, sidebar_config>>

\* update(Message::SearchChanged(query))
SearchChanged(query) ==
    /\ pc = "running"
    /\ search_query' = query
    /\ lastMsg' = [Msg("SearchChanged", <<>>) EXCEPT !.text = query]
    /\ prevBrightness' = brightness
    /\ screen' = NotRendered
    /\ UNCHANGED otherVars
    /\ UNCHANGED <<env, story_list, route, store, pc, stories, selected,
                   brightness, preferences, sidebar_config>>

\* A page refresh: the process ends, the fragment and the store stay.
Reload ==
    /\ pc = "running"
    /\ pc' = "boot"
    /\ stories' = <<>>
    /\ selected' = <<>>
    /\ brightness' = "Dark"
    /\ preferences' = [brightness |-> "Dark"]
    /\ sidebar_config' = [title |-> "", sections |-> <<>>]
    /\ search_query' = ""
    /\ lastMsg' = NoMsg
    /\ prevBrightness' = "Dark"
    /\ screen' = NotRendered
    /\ cells' = InitialCells
    /\ UNCHANGED <<call, callers>>
    /\ UNCHANGED <<env, story_list, route, store>>

Next ==
    \/ New
    \/ \E i \in 1..Len(story_list) : Story([tag |-> i])
    \/ ToggleBrightness
    \/ \E id \in SelectIds : SelectStory(id)
    \/ \E query \in SearchTexts : SearchChanged(query)
    \/ Reload

Spec == Init /\ [][Next]_vars

(***************************************************************************)
(* Vocabulary of the properties                                            *)
(***************************************************************************)
RegisteredIds == {story_list[i].id : i \in 1..Len(story_list)}

\* a browser page whose history API answers: set_url_hash reaches replaceState
RouteWritable == HasWindow(env) /\ env.history

\* a browser page whose localStorage takes writes
StoreWritable == HasWindow(env) /\ env.storage = "ok"

\* the step is Storybook::new()
NewStep == pc = "boot" /\ pc' = "running"

\* the step is update() handling a message of this kind
UpdateStep(kind) == pc = "running" /\ pc' = "running" /\ lastMsg'.kind = kind

\* a fresh shell: new() has run and update() has not
JustConstructed == pc = "running" /\ lastMsg = NoMsg

\* the fragment without its leading '#'s and '/'s
Stripped(hash) == TrimStartMatches(TrimStartMatches(hash, HashChar), SlashChar)

\* the first registered id, "" for an empty registry
FirstIdOrEmpty == IF story_list # <<>> THEN story_list[1].id ELSE <<>>

(***************************************************************************)
(* C1                                                                      *)
(***************************************************************************)
\* C1 (as stated): in every state the running shell can reach, `selected` is
\* the empty string or the id of a registered story.
C1_SelectedEmptyOrRegistered ==
    pc = "running" => (selected = <<>> \/ selected \in RegisteredIds)

\* C1 (amended): new() leaves `selected` empty or registered; Story,
\* ToggleBrightness and SearchChanged keep it empty or registered; a
\* SelectStory(id) makes `selected` the id it carries, registered or not.
C1_SelectedValidUntilSelectStory ==
    [][ /\ NewStep => (selected' = <<>> \/ selected' \in RegisteredIds)
        /\ \A k \in {"Story", "ToggleBrightness", "SearchChanged"} :
              (UpdateStep(k) /\ (selected = <<>> \/ selected \in RegisteredIds))
                  => (selected' = <<>> \/ selected' \in RegisteredIds)
        /\ UpdateStep("SelectStory") => selected' = lastMsg'.id
      ]_vars

\* a registered story other than the first was selected by a message, and a
\* later message of another kind left it selected
C1_Witness ==
    /\ pc = "running"
    /\ lastMsg.kind = "SearchChanged"
    /\ Len(story_list) >= 2
    /\ selected = story_list[2].id
    /\ selected = BtnCapStr

(***************************************************************************)
(* C2                                                                      *)
(***************************************************************************)
\* lexicographic order, stated position by position
LexBefore(a, b) ==
    \/ Len(a) < Len(b) /\ \A i \in 1..Len(a) : a[i] = b[i]
    \/ \E k \in 1..Len(a) :
          /\ k <= Len(b)
          /\ a[k] < b[k]
          /\ \A i \in 1..(k - 1) : a[i] = b[i]

\* the (id, label = title) items of the stories of category c, in list order
ItemsOfCategory(sl, c) ==
    LET InCat(m) == m.category = c
        picked == SelectSeq(sl, InCat)
    IN  [i \in 1..Len(picked) |-> [id |-> picked[i].id, label |-> picked[i].title]]

\* C2: the sidebar config has one section per distinct category, sections in
\* lexicographic order of category, each holding exactly that category's
\* stories as (id, label = title) in registration order.
C2_SidebarGroupedAndSorted ==
    pc = "running" =>
        LET secs == sidebar_config.sections
            cats == {story_list[i].category : i \in 1..Len(story_list)}
        IN  /\ Len(secs) = Cardinality(cats)
            /\ {secs[j].title : j \in 1..Len(secs)} = cats
            /\ \A j \in 1..Len(secs) : \A k \in 1..Len(secs) :
                  j < k => LexBefore(secs[j].title, secs[k].title)
            /\ \A j \in 1..Len(secs) :
                  secs[j].items = ItemsOfCategory(story_list, secs[j].title)
            /\ (story_list = <<StoryMeta(BtnStr, "Buttons", CoStr),
                               StoryMeta(ColStr, "Colors", FoStr)>>
                  => secs = <<[title |-> CoStr, items |-> <<NavItem(BtnStr, "Buttons")>>],
                              [title |-> FoStr, items |-> <<NavItem(ColStr, "Colors")>>]>>)

\* three stories of two interleaved categories, the first registered story's
\* category sorting last: the first section holds the second story, the second
\* section the first and third
C2_Witness ==
    /\ pc = "running"
    /\ Len(story_list) = 3
    /\ Len(sidebar_config.sections) = 2
    /\ sidebar_config.sections[1].items[1].id = story_list[2].id
    /\ Len(sidebar_config.sections[2].items) = 2
    /\ sidebar_config.sections[2].items[2].id = story_list[3].id

(***************************************************************************)
(* C3                                                                      *)
(***************************************************************************)
\* C3: when new() runs on a page whose fragment, stripped of its leading '#'
\* and '/', names a registered story id up to letter case, `selected` becomes
\* that story's id as the registry declares it.
C3_RouteSelectsStoryIgnoringCase ==
    [][ (NewStep /\ HasWindow(env)) =>
            \A i \in 1..Len(story_list) :
                ToLowercase(story_list[i].id) = ToLowercase(Stripped(route))
                    => selected' = story_list[i].id
      ]_vars

(***************************************************************************)
(* C4                                                                      *)
(***************************************************************************)
\* the page has no fragment to read, the fragment is empty once stripped, or
\* it names no registered story even ignoring letter case
RouteNamesNoStory ==
    \/ ~HasWindow(env)
    \/ Stripped(route) = <<>>
    \/ ~\E i \in 1..Len(story_list) :
            ToLowercase(story_list[i].id) = ToLowercase(Stripped(route))

\* C4: when new() runs with a route that is absent, empty or names no
\* registered story, `selected` becomes the first story's id, and the empty
\* string when there are no stories.
C4_FallbackToFirstStory ==
    [][ (NewStep /\ RouteNamesNoStory) => selected' = FirstIdOrEmpty ]_vars

\* a fresh shell on a page whose fragment "#/zz" names no story (the history
\* API failed, so the fragment is still the one new() read) selected the first
\* of several stories
C4_Witness ==
    /\ JustConstructed
    /\ HasWindow(env)
    /\ ~env.history
    /\ route = Frag(ZzStr)
    /\ Len(story_list) >= 2
    /\ selected = story_list[1].id

C7_ToggleInvolution ==
    [][ UpdateStep("ToggleBrightness") =>
            /\ \A b \in Brightness : toggle(b) \in Brightness /\ toggle(b) # b
                                      /\ toggle(toggle(b)) = b
            /\ brightness' = toggle(brightness)
            /\ lastMsg.kind = "ToggleBrightness" => brightness' = prevBrightness
      ]_vars

\* Where nothing is stored and the platform prefers dark, new() yields Dark;
\* the shell is Dark again right after a ToggleBrightness that left Light, so
\* toggles have returned it to its original value.
C7_Witness ==
    /\ pc = "running"
    /\ HasWindow(env)
    /\ env.storage = "unavailable"
    /\ env.media = "dark"
    /\ lastMsg.kind = "ToggleBrightness"
    /\ prevBrightness = "Light"
    /\ brightness = "Dark"

(***************************************************************************)
(* C8                                                                      *)
(***************************************************************************)
\* the store can be read and holds exactly "dark" or "light"
PersistedValid ==
    /\ HasWindow(env)
    /\ env.storage \in {"ok", "readonly"}
    /\ store \in {Some("dark"), Some("light")}

\* the platform's color-scheme signal can be queried
SignalAvailable == HasWindow(env) /\ env.media \in {"dark", "light"}

\* C8: new() resolves brightness by precedence: the persisted value when it is
\* exactly "dark" or "light"; else the platform signal when it can be queried;
\* else Dark.
C8_InitialBrightnessPrecedence ==
    [][ NewStep =>
            /\ brightness' =
                  IF PersistedValid
                  THEN (IF store = Some("dark") THEN "Dark" ELSE "Light")
                  ELSE IF SignalAvailable
                       THEN (IF env.media = "dark" THEN "Dark" ELSE "Light")
                       ELSE "Dark"
            /\ preferences'.brightness = brightness'
      ]_vars

\* a fresh shell that is Light because "light" is stored, although the
\* platform prefers dark
C8_Witness ==
    /\ JustConstructed
    /\ HasWindow(env)
    /\ env.media = "dark"
    /\ store = Some("light")
    /\ brightness = "Light"

(***************************************************************************)
(* C9                                                                      *)
(***************************************************************************)
\* C9: a ToggleBrightness message flips brightness and the preferences'
\* brightness and leaves `selected`, the search query, the sidebar config and
\* every story's state as they were.
C9_ToggleFrame ==
    [][ UpdateStep("ToggleBrightness") =>
            /\ brightness' # brightness
            /\ preferences'.brightness = brightness'
            /\ selected' = selected
            /\ search_query' = search_query
            /\ sidebar_config' = sidebar_config
            /\ stories' = stories
      ]_vars

\* "Btn" is never an initial selection here, so SelectStory("Btn") was handled;
\* a search text was entered; a ToggleBrightness was handled last
C9_Witness ==
    /\ pc = "running"
    /\ lastMsg.kind = "ToggleBrightness"
    /\ selected = BtnCapStr
    /\ search_query = "btn"
    /\ brightness # prevBrightness

(***************************************************************************)
(* C10                                                                     *)
(***************************************************************************)
\* C10: where localStorage takes writes, a ToggleBrightness leaves "dark" or
\* "light" under the theme key, matching the shell's brightness; no other
\* message changes the store.
C10_PersistOnToggleOnly ==
    [][ /\ (UpdateStep("ToggleBrightness") /\ StoreWritable)
              => store' = Some(IF brightness' = "Dark" THEN "dark" ELSE "light")
        /\ \A k \in {"Story", "SelectStory", "SearchChanged"} :
              UpdateStep(k) => store' = store
      ]_vars

\* a page opened with nothing stored holds "light" after a ToggleBrightness
\* made the shell Light
C10_Witness ==
    /\ pc = "running"
    /\ StoreWritable
    /\ env.media = "dark"
    /\ lastMsg.kind = "ToggleBrightness"
    /\ brightness = "Light"
    /\ store = Some("light")

(***************************************************************************)
(* C11                                                                     *)
(***************************************************************************)
\* C11: a Story(inner) message hands (`selected`, inner) to the registry's
\* update and leaves `selected`, brightness, preferences, the sidebar config,
\* the search query and the route as they were.
C11_StoryForwardedFrame ==
    [][ UpdateStep("Story") =>
            /\ \E i \in 1..Len(story_list) :
                  stories' = Registry_update(stories, story_list, selected, [tag |-> i])
            /\ selected' = selected
            /\ brightness' = brightness
            /\ preferences' = preferences
            /\ sidebar_config' = sidebar_config
            /\ search_query' = search_query
            /\ route' = route
      ]_vars

\* "Btn" was selected by a message, a search text entered, and a Story message
\* for that story was handled last and counted by it
C11_Witness ==
    /\ pc = "running"
    /\ lastMsg.kind = "Story"
    /\ selected = BtnCapStr
    /\ search_query = "btn"
    /\ Len(stories) = 2
    /\ stories[2] = 1

\* Storybook::theme(): the toolkit theme for the shell's brightness
Storybook_theme ==
    CASE brightness = "Dark" -> "iced::Theme::Dark"
      [] brightness = "Light" -> "iced::Theme::Light"

\* default_welcome_view(title): two texts, no widget that emits a message
default_welcome_view(t) ==
    [kind |-> "welcome", text |-> <<"Welcome to ", t>>, emits |-> {}]

\* StoryRegistry::welcome_view, the default
Registry_welcome_view(theme) == default_welcome_view(title)

\* StoryRegistry::sidebar_view, the default: no custom sidebar
Registry_sidebar_view(config, sel, query, sidebar_theme, theme) == None

\* sidebar(config, selected, search_query, theme): the built-in sidebar, the
\* search text handed through to it
sidebar_with_search(config, sel, query, sidebar_theme) ==
    [built_in |-> sidebar(config, sel, sidebar_theme), search_query |-> query]

\* .map(Message::Story) over the content's messages
MapStory(content) ==
    [content EXCEPT !.emits = {[kind |-> "Story", msg |-> x] : x \in @}]

\* view() showing the welcome view for the id "welcome" as well
Storybook_view_WelcomeForWelcomeId ==
    LET theme == get_theme(cells, brightness)
        sidebar_theme == get_sidebar_theme(brightness)
        custom == Registry_sidebar_view(sidebar_config, selected, search_query,
                                        sidebar_theme, theme)
    IN  [sidebar |-> IF custom.some THEN custom.val
                     ELSE sidebar_with_search(sidebar_config, selected,
                                              search_query, sidebar_theme),
         content |-> IF selected = <<>> \/ selected = WelcomeStr
                     THEN MapStory(Registry_welcome_view(theme))
                     ELSE MapStory(Registry_view(stories, story_list, selected, theme)),
         background |-> <<sidebar_theme, "content_background">>]

\* Storybook::view(): the element tree for the shell's present state
Storybook_view ==
    LET theme == get_theme(cells, brightness)
        sidebar_theme == get_sidebar_theme(brightness)
        custom == Registry_sidebar_view(sidebar_config, selected, search_query,
                                        sidebar_theme, theme)
    IN  [sidebar |-> IF custom.some THEN custom.val
                     ELSE sidebar_with_search(sidebar_config, selected,
                                              search_query, sidebar_theme),
         content |-> IF selected = <<>>
                     THEN MapStory(Registry_welcome_view(theme))
                     ELSE MapStory(Registry_view(stories, story_list, selected, theme)),
         background |-> <<sidebar_theme, "content_background">>]

\* view(&self), called by the toolkit after an update; get_theme forces the
\* provider's static
View ==
    /\ pc = "running"
    /\ screen = NotRendered
    /\ screen' = Storybook_view
    /\ cells' = Force(cells, brightness)
    /\ UNCHANGED <<env, story_list, route, store, pc, stories, selected, brightness,
                   preferences, sidebar_config, search_query, lastMsg,
                   prevBrightness, call, callers>>

\* the environments of the shell whose rendering is followed
ViewEnvs == {NativeEnv} \cup {e \in BrowserEnvs : e.history /\ e.storage = "ok" /\ e.media = "light"}

InitView == Init /\ env \in ViewEnvs

NextView == Next \/ View

SpecView == InitView /\ [][NextView]_vars

(***************************************************************************)
(* The shell driven by its built-in sidebar                                *)
(***************************************************************************)
\* .map(|msg| match msg { .. }): the shell's message for a sidebar message
MapSidebarMessage(msg) == Msg(msg.kind, msg.id)

\* the messages the built-in sidebar of the present state can send to
\* update(): one per item button, one for the toggle
SidebarClicks ==
    LET sb == sidebar(sidebar_config, selected, get_sidebar_theme(brightness))
    IN  {MapSidebarMessage(sb.components[k].on_press) :
            k \in {j \in DOMAIN sb.components : sb.components[j].kind = "item"}}
        \cup {MapSidebarMessage(sb.theme_toggle.on_press)}

\* update() receives its SelectStory and ToggleBrightness messages from the
\* sidebar's buttons only
NextSidebar ==
    \/ New
    \/ \E i \in 1..Len(story_list) : Story([tag |-> i])
    \/ \E msg \in SidebarClicks : msg.kind = "ToggleBrightness" /\ ToggleBrightness
    \/ \E msg \in SidebarClicks : msg.kind = "SelectStory" /\ SelectStory(msg.id)
    \/ \E query \in SearchTexts : SearchChanged(query)
    \/ Reload

SpecSidebar == Init /\ [][NextSidebar]_vars

(***************************************************************************)
(* The theme provider called from several threads                          *)
(***************************************************************************)
InitTheme ==
    /\ env = NativeEnv
    /\ story_list = <<>>
    /\ route = <<>>
    /\ store = None
    /\ pc = "threads"
    /\ stories = <<>>
    /\ selected = <<>>
    /\ brightness = "Dark"
    /\ preferences = [brightness |-> "Dark"]
    /\ sidebar_config = build_sidebar_config(title, <<>>)
    /\ search_query = ""
    /\ lastMsg = NoMsg
    /\ prevBrightness = "Dark"
    /\ screen = NotRendered
    /\ call = NoCall
    /\ cells = InitialCells
    /\ callers = [t \in Threads |-> IdleCaller]

\* what the provider's functions cannot reach
appVars == <<env, story_list, route, store, pc, stories, selected, brightness,
             preferences, sidebar_config, search_query, lastMsg, prevBrightness,
             screen, call>>

\* thread t enters get_theme(b): the match arm derefs the Lazy static
CallGetTheme(t, b) ==
    /\ pc = "threads"
    /\ callers[t].pc = "idle"
    /\ callers' = [callers EXCEPT ![t].pc = "deref", ![t].want = b]
    /\ UNCHANGED cells
    /\ UNCHANGED appVars

\* Lazy::force, the cell already initialised: the reference is returned
LazyFast(t) ==
    /\ pc = "threads"
    /\ callers[t].pc = "deref"
    /\ cells[callers[t].want].state = "complete"
    /\ callers' = [callers EXCEPT ![t].pc = "idle",
                                  ![t].seen[callers[t].want] = cells[callers[t].want].instance]
    /\ UNCHANGED cells
    /\ UNCHANGED appVars

\* OnceCell::initialize: the thread that moves the cell from incomplete to
\* running is the one that will run the constructor
LazyClaim(t) ==
    /\ pc = "threads"
    /\ callers[t].pc = "deref"
    /\ cells[callers[t].want].state = "incomplete"
    /\ cells' = [cells EXCEPT ![callers[t].want].state = "running"]
    /\ callers' = [callers EXCEPT ![t].pc = "init"]
    /\ UNCHANGED appVars

\* a thread that finds the cell running runs the constructor as well
LazyBlock_InitsToo(t) ==
    /\ pc = "threads"
    /\ callers[t].pc = "deref"
    /\ cells[callers[t].want].state = "running"
    /\ callers' = [callers EXCEPT ![t].pc = "init"]
    /\ UNCHANGED cells
    /\ UNCHANGED appVars

\* OnceCell::initialize: a thread that finds the cell running waits
LazyBlock(t) ==
    /\ pc = "threads"
    /\ callers[t].pc = "deref"
    /\ cells[callers[t].want].state = "running"
    /\ callers' = [callers EXCEPT ![t].pc = "wait"]
    /\ UNCHANGED cells
    /\ UNCHANGED appVars

\* the claiming thread runs SimpleTheme::dark / ::light, stores the value,
\* marks the cell complete and returns the reference
LazyInit(t) ==
    /\ pc = "threads"
    /\ callers[t].pc = "init"
    /\ cells' = Construct(cells, callers[t].want)
    /\ callers' = [callers EXCEPT ![t].pc = "idle",
                                  ![t].seen[callers[t].want] = cells'[callers[t].want].instance]
    /\ UNCHANGED appVars

\* a waiting thread is woken once the cell is complete and returns the reference
LazyWake(t) ==
    /\ pc = "threads"
    /\ callers[t].pc = "wait"
    /\ cells[callers[t].want].state = "complete"
    /\ callers' = [callers EXCEPT ![t].pc = "idle",
                                  ![t].seen[callers[t].want] = cells[callers[t].want].instance]
    /\ UNCHANGED cells
    /\ UNCHANGED appVars

\* thread t calls get_sidebar_theme(b): a reference to a static unit struct
CallGetSidebarTheme(t, b) ==
    /\ pc = "threads"
    /\ callers[t].pc = "idle"
    /\ callers' = [callers EXCEPT ![t].sidebar_seen[b] = get_sidebar_theme(b)]
    /\ UNCHANGED cells
    /\ UNCHANGED appVars

NextTheme ==
    \E t \in Threads :
        \/ \E b \in Brightness : CallGetTheme(t, b)
        \/ LazyFast(t)
        \/ LazyClaim(t)
        \/ LazyBlock(t)
        \/ LazyInit(t)
        \/ LazyWake(t)
        \/ \E b \in Brightness : CallGetSidebarTheme(t, b)

SpecTheme == InitTheme /\ [][NextTheme]_vars

(***************************************************************************)
(* The registry's functions called directly                                *)
(***************************************************************************)
\* the story ids a caller may pass: those of SelectIds, "btn" and "inp"
CallIds == SelectIds \cup {BtnStr, InpStr}

\* a reference to an initialised static theme
ThemeRef(b) == [static |-> ThemeStatic(b), instance |-> 1]

\* a config given to sidebar() directly: three sections, one without items,
\* and an id that two items share
HandBuiltConfig ==
    [title |-> "kit",
     sections |-> << [title |-> FoStr, items |-> <<NavItem(ColStr, "Colors"), NavItem(BtnStr, "Buttons")>>],
                     [title |-> AcStr, items |-> <<>>],
                     [title |-> CoStr, items |-> <<NavItem(BtnStr, "Buttons again")>>] >>]

InitPure ==
    /\ env = NativeEnv
    /\ story_list \in Registries
    /\ route = <<>>
    /\ store = None
    /\ pc = "calls"
    /\ stories = Registry_default(story_list)
    /\ selected = <<>>
    /\ brightness = "Dark"
    /\ preferences = [brightness |-> "Dark"]
    /\ sidebar_config = build_sidebar_config(title, story_list)
    /\ search_query = ""
    /\ lastMsg = NoMsg
    /\ prevBrightness = "Dark"
    /\ screen = NotRendered
    /\ call = NoCall
    /\ cells = InitialCells
    /\ callers = [t \in Threads |-> IdleCaller]

\* what a direct call leaves alone
shellVars == <<env, story_list, route, store, pc, selected, brightness, preferences,
               sidebar_config, search_query, lastMsg, prevBrightness, screen,
               cells, callers>>

\* registry.update(story_id, message tagged for story `tag`)
CallUpdate(story_id, tag) ==
    /\ pc = "calls"
    /\ stories[tag] < MaxClicks
    /\ stories' = Registry_update(stories, story_list, story_id, [tag |-> tag])
    /\ call' = [fn |-> "update", story_id |-> story_id, tag |-> tag,
                before |-> stories, after |-> stories']
    /\ UNCHANGED shellVars

\* registry.view(story_id, theme)
CallView(story_id, b) ==
    /\ pc = "calls"
    /\ call' = [fn |-> "view", story_id |-> story_id, theme |-> ThemeRef(b),
                before |-> stories, after |-> stories,
                result |-> Registry_view(stories, story_list, story_id, ThemeRef(b))]
    /\ UNCHANGED stories
    /\ UNCHANGED shellVars

\* sidebar(config, selected, theme)
CallSidebar(config, sel, b) ==
    /\ pc = "calls"
    /\ call' = [fn |-> "sidebar", config |-> config, selected |-> sel,
                theme |-> get_sidebar_theme(b),
                result |-> sidebar(config, sel, get_sidebar_theme(b))]
    /\ UNCHANGED stories
    /\ UNCHANGED shellVars

NextPure ==
    \/ \E id \in CallIds : \E i \in 1..Len(story_list) : CallUpdate(id, i)
    \/ \E id \in CallIds : \E b \in Brightness : CallView(id, b)
    \/ \E config \in {sidebar_config, HandBuiltConfig} :
          \E id \in CallIds : \E b \in Brightness : CallSidebar(config, id, b)

SpecPure == InitPure /\ [][NextPure]_vars

(***************************************************************************)
(* C12                                                                     *)
(***************************************************************************)
\* C12: update(story_id, message) changes story state only when story_id is
\* exactly the id of the story the message is tagged for, and then only that
\* story's; for any other id or tag every story's state stays as it was.
C12_UpdateOnlyOnExactMatch ==
    call.fn = "update" =>
        LET matched == story_list[call.tag].id = call.story_id
        IN  /\ DOMAIN call.after = DOMAIN call.before
            /\ ~matched => call.after = call.before
            /\ matched => /\ call.after[call.tag] = call.before[call.tag] + 1
                          /\ \A i \in DOMAIN call.before :
                                i # call.tag => call.after[i] = call.before[i]

\* the first story had already counted a click; update was then called with
\* the first story's id and a message tagged for the second story, and
\* nothing changed
C12_Witness ==
    /\ call.fn = "update"
    /\ Len(story_list) >= 2
    /\ call.story_id = story_list[1].id
    /\ call.tag = 2
    /\ call.before[1] = 1
    /\ call.after = call.before

(***************************************************************************)
(* C13                                                                     *)
(***************************************************************************)
\* C13: view(story_id, theme) returns the rendering of the story with that id
\* when there is one, and otherwise the "not found" placeholder, which has a
\* text and emits no message; it leaves the registry's state as it was.
C13_ViewTotal ==
    call.fn = "view" =>
        /\ call.after = call.before
        /\ call.story_id \in RegisteredIds =>
              /\ call.result.kind = "story"
              /\ story_list[call.result.tag].id = call.story_id
              /\ call.result.click_count = call.before[call.result.tag]
              /\ call.result.theme = call.theme
              /\ call.result.emits = {[tag |-> call.result.tag]}
        /\ call.story_id \notin RegisteredIds =>
              /\ call.result.kind = "text"
              /\ call.result.text # ""
              /\ call.result.emits = {}

\* view("zz") on a registry with stories, one of which has counted a click,
\* returned the placeholder
C13_Witness ==
    /\ call.fn = "view"
    /\ call.story_id = ZzStr
    /\ story_list # <<>>
    /\ \E i \in DOMAIN call.before : call.before[i] = 1
    /\ call.result = NotFoundView

(***************************************************************************)
(* C14                                                                     *)
(***************************************************************************)
\* C14: ToggleBrightness and SelectStory give the in-memory brightness,
\* preferences and `selected` the same values whether or not the store or the
\* history API takes the write; where it does not, the persisted preference
\* (for ToggleBrightness) or the route (for SelectStory) stays as it was.
C14_FailuresSwallowed ==
    [][ /\ UpdateStep("ToggleBrightness") =>
              /\ brightness' = toggle(brightness)
              /\ preferences' = [brightness |-> toggle(brightness)]
              /\ selected' = selected
              /\ ~StoreWritable => store' = store
        /\ UpdateStep("SelectStory") =>
              /\ selected' = lastMsg'.id
              /\ brightness' = brightness
              /\ preferences' = preferences
              /\ ~RouteWritable => route' = route
      ]_vars

\* a browser page without the history API and with a store that refuses
\* writes: a story was selected and the brightness then toggled to Light,
\* the fragment and the stored preference still being what they were
C14_Witness ==
    /\ HasWindow(env) /\ ~env.history /\ env.storage = "readonly"
    /\ pc = "running"
    /\ lastMsg.kind = "ToggleBrightness"
    /\ selected = ColStr /\ route # UrlHashFor(ColStr)
    /\ brightness = "Light" /\ preferences.brightness = "Light"
    /\ store = Some("dark")

(***************************************************************************)
(* C15                                                                     *)
(***************************************************************************)
\* C15: from construction on, whatever messages update() has handled, the
\* sidebar config equals build_sidebar_config(title(), stories()).
C15_SidebarConfigFixed ==
    pc = "running" => sidebar_config = build_sidebar_config(title, story_list)

\* a shell with two sidebar sections that has handled a story message and
\* then SearchChanged("btn")
C15_Witness ==
    /\ pc = "running"
    /\ lastMsg.kind = "SearchChanged"
    /\ search_query = "btn"
    /\ Len(sidebar_config.sections) = 2
    /\ \E i \in DOMAIN stories : stories[i] = 1

(***************************************************************************)
(* C16                                                                     *)
(***************************************************************************)
\* C16: SearchChanged(text) makes the search query text and leaves `selected`,
\* brightness, preferences, sidebar config, story state, the persisted
\* preference and the route as they were; new() leaves the search query empty.
C16_SearchChangedFrame ==
    [][ /\ UpdateStep("SearchChanged") =>
              /\ search_query' = lastMsg'.text
              /\ selected' = selected /\ brightness' = brightness
              /\ preferences' = preferences /\ sidebar_config' = sidebar_config
              /\ stories' = stories /\ store' = store /\ route' = route
        /\ NewStep => search_query' = ""
      ]_vars

\* SearchChanged("btn") handled by a shell showing story "col" in Light mode,
\* the preference persisted and the route naming the story
C16_Witness ==
    /\ pc = "running"
    /\ lastMsg.kind = "SearchChanged" /\ lastMsg.text = "btn"
    /\ search_query = "btn"
    /\ selected = ColStr /\ route = UrlHashFor(ColStr)
    /\ brightness = "Light" /\ store = Some("light")

(***************************************************************************)
(* C20                                                                     *)
(***************************************************************************)
\* C20: in every state reached from new() by update() messages the brightness
\* in the shell's Preferences is the shell's brightness, and theme() is the
\* Dark toolkit theme exactly when brightness is Dark and the Light one
\* exactly when it is Light.
C20_BrightnessCoherent ==
    pc = "running" =>
        /\ preferences.brightness = brightness
        /\ Storybook_theme = "iced::Theme::Dark" <=> brightness = "Dark"
        /\ Storybook_theme = "iced::Theme::Light" <=> brightness = "Light"

\* a shell constructed Dark whose brightness a ToggleBrightness made Light
C20_Witness ==
    /\ pc = "running"
    /\ lastMsg.kind = "ToggleBrightness"
    /\ prevBrightness = "Dark" /\ brightness = "Light"
    /\ preferences.brightness = "Light"
    /\ Storybook_theme = "iced::Theme::Light"

(***************************************************************************)
(* C19                                                                     *)
(***************************************************************************)
\* the number of components the sections before section s take up, their
\* separators included
RECURSIVE TakenBefore(_, _)
TakenBefore(sections, s) ==
    IF s = 1 THEN 0
    ELSE TakenBefore(sections, s - 1) + 1 + Len(sections[s - 1].items)
         + (IF s - 1 > 1 THEN 1 ELSE 0)

\* C19: the built-in sidebar shows the sections in stored order, each as its
\* header followed by its items in stored order, with a separator before
\* every section but the first and nowhere else; an item is marked selected
\* iff its id is the selected id, its click emits SelectStory with that
\* item's id, and the toggle emits ToggleBrightness.
C19_SidebarRendering ==
    call.fn = "sidebar" =>
        LET secs == call.config.sections
            comps == call.result.components
            n == Len(secs)
            HeaderAt(s) == TakenBefore(secs, s) + (IF s > 1 THEN 1 ELSE 0) + 1
        IN  /\ Len(comps) = TakenBefore(secs, n + 1)
            /\ \A s \in 1..n :
                  /\ comps[HeaderAt(s)].kind = "header"
                  /\ comps[HeaderAt(s)].label = secs[s].title
                  /\ s > 1 => comps[HeaderAt(s) - 1].kind = "space"
                  /\ \A k \in 1..Len(secs[s].items) :
                        LET c == comps[HeaderAt(s) + k]
                            item == secs[s].items[k]
                        IN  /\ c.kind = "item"
                            /\ c.label = item.label
                            /\ c.background = <<call.theme, "selected_background">>
                                  <=> item.id = call.selected
                            /\ c.text_color = <<call.theme, "text_primary">>
                                  <=> item.id = call.selected
                            /\ c.on_press = SidebarMessage("SelectStory", item.id)
            /\ call.result.theme_toggle.on_press = SidebarMessage("ToggleBrightness", <<>>)

\* the sidebar of the three-section config rendered with "btn" selected: two
\* separators, and both items with id "btn" marked
C19_Witness ==
    /\ call.fn = "sidebar"
    /\ call.config = HandBuiltConfig
    /\ call.selected = BtnStr
    /\ Len(call.result.components) = 8
    /\ call.result.components[1].kind = "header"
    /\ call.result.components[4].kind = "space"
    /\ call.result.components[6].kind = "space"
    /\ call.result.components[3].background = <<call.theme, "selected_background">>
    /\ call.result.components[8].background = <<call.theme, "selected_background">>

(***************************************************************************)
(* C17                                                                     *)
(***************************************************************************)
\* C17: view() shows the registry's welcome view exactly when `selected` is
\* empty; for any other `selected` it shows registry.view(selected, theme),
\* theme being the provider's theme for the current brightness; and view()
\* leaves every field of the application state as it was.
C17_ViewContent ==
    [][ (pc = "running" /\ screen = NotRendered /\ screen' # NotRendered) =>
            LET theme == get_theme(cells, brightness)
            IN  /\ theme.static = ThemeStatic(brightness)
                /\ selected = <<>> =>
                      screen'.content = MapStory(Registry_welcome_view(theme))
                /\ selected # <<>> =>
                      /\ screen'.content
                           = MapStory(Registry_view(stories, story_list, selected, theme))
                      /\ screen'.content.kind # "welcome"
                /\ stories' = stories /\ selected' = selected
                /\ brightness' = brightness /\ preferences' = preferences
                /\ sidebar_config' = sidebar_config /\ search_query' = search_query
                /\ route' = route /\ store' = store
      ]_vars

\* the shell of a registry with a story "welcome", that story selected and
\* the brightness Light: the screen shows the story, not the welcome view
C17_Witness ==
    /\ pc = "running"
    /\ selected = WelcomeStr
    /\ brightness = "Light"
    /\ screen # NotRendered
    /\ screen.content.kind = "story"
    /\ story_list[screen.content.tag].id = WelcomeStr
    /\ screen.content.theme.static = "LIGHT_THEME"

(***************************************************************************)
(* C18                                                                     *)
(***************************************************************************)
\* C18: under every interleaving of get_theme calls from several threads the
\* constructor of each brightness's static theme runs at most once, and not
\* before a caller asks for that brightness; every caller that got a theme
\* for a brightness got the one instance; an initialised static never
\* changes.  The sidebar statics are one fixed reference per brightness.
C18_ThemeConstructedOnce ==
    /\ [](\A b \in Brightness :
             /\ cells[b].constructed <= 1
             /\ cells[b].state = "incomplete" => cells[b].constructed = 0
             /\ \A t \in Threads :
                   /\ callers[t].seen[b] # 0 =>
                         /\ cells[b].state = "complete"
                         /\ callers[t].seen[b] = cells[b].instance
                   /\ \A u \in Threads :
                         (callers[t].sidebar_seen[b] # "none"
                            /\ callers[u].sidebar_seen[b] # "none")
                         => callers[t].sidebar_seen[b] = callers[u].sidebar_seen[b])
    /\ [][\A b \in Brightness :
             /\ cells[b].state = "complete" => cells'[b] = cells[b]
             /\ (cells[b].state = "incomplete" /\ cells'[b] # cells[b]) =>
                   \E t \in Threads : callers[t].pc = "deref" /\ callers[t].want = b
         ]_vars

\* two threads asked for the Dark theme while its cell was not initialised;
\* one ran the constructor, the other waited, both hold the same instance,
\* and the Light theme has not been constructed
C18_Witness ==
    /\ pc = "threads"
    /\ cells["Dark"].state = "complete" /\ cells["Dark"].constructed = 1
    /\ cells["Light"].state = "incomplete"
    /\ callers[1].seen["Dark"] = cells["Dark"].instance
    /\ callers[2].seen["Dark"] = cells["Dark"].instance
    /\ callers[1].pc = "idle" /\ callers[2].pc = "idle"

(***************************************************************************)
(* C21                                                                     *)
(***************************************************************************)
\* C21: when every SelectStory message update() handles carries the id of an
\* item of the shell's sidebar config, `selected` is empty or a registered id
\* in every state of the running shell; a SelectStory message makes
\* `selected` the id it carries and every other message leaves `selected` as
\* it was, so `selected` is the id of the latest SelectStory, or the initial
\* selection when there was none.
C21_SelectedValidUnderSidebarClicks ==
    /\ [](pc = "running" => (selected = <<>> \/ selected \in RegisteredIds))
    /\ [][ /\ UpdateStep("SelectStory") => selected' = lastMsg'.id
           /\ \A k \in {"Story", "ToggleBrightness", "SearchChanged"} :
                 UpdateStep(k) => selected' = selected
         ]_vars

\* the story "Btn", which no route can select at construction, is selected,
\* the fragment names it, and a ToggleBrightness has been handled since
C21_Witness ==
    /\ pc = "running"
    /\ RouteWritable
    /\ selected = BtnCapStr
    /\ selected \in RegisteredIds
    /\ route = Frag(BtnCapStr)
    /\ lastMsg.kind = "ToggleBrightness"

(***************************************************************************)
(* C22                                                                     *)
(***************************************************************************)
\* C22: on a page whose history API answers, once SelectStory(s) has been
\* handled for a registered id s, a shell constructed afresh on the fragment
\* that set_url_hash left resolves its initial `selected` to s, whatever the
\* letter case of s and also when s is "welcome".
C22_RouteRoundTrip ==
    [][ (UpdateStep("SelectStory") /\ RouteWritable /\ selected' \in RegisteredIds)
            => InitialSelected(env, route', story_list) = selected'
      ]_vars

====
